---- MODULE Spec2Model ----
(***************************************************************************)
(* Model of babbageclunk/utils: the HTTP client factory, the dial gate     *)
(* (OutgoingAccessAllowed / isLocalAddr), the Basic-Auth header codec      *)
(* (src/http.go) and the once-computed host series (series package).       *)
(*                                                                         *)
(* Go strings are modelled as sequences: addresses as sequences of         *)
(* one-character strings, header values and credentials as sequences of    *)
(* byte values (0..255).                                                   *)
(***************************************************************************)
EXTENDS Integers, Sequences, FiniteSets, TLC

VARIABLES
    \* ---- src/http.go: package state, clients and dials
    inited,                 \* init() has run
    OutgoingAccessAllowed,  \* the package variable of src/http.go:131
    defaultTransport,       \* http.DefaultTransport: [shim, file]
    client,                 \* the client last returned by GetHTTPClient
    dial,                   \* the dial attempt of that client's transport
    \* ---- src/http.go: isLocalAddr on its own
    addrIn,                 \* the address under test: [form, host]
    addrOut,                \* the result of isLocalAddr: [done, local]
    \* ---- src/http.go: Basic-Auth codec
    enc,                    \* the request under test: what its header is made of
    stage,                  \* "start", "received" (header in hand), "parsed"
    hdr,                    \* the http.Header: [present, value]
    parsed,                 \* the result of ParseBasicAuthHeader
    \* ---- series package
    seriesOnce,             \* sync.Once: [done, m]
    series,                 \* package variable series
    seriesErr,              \* package variable seriesErr
    pc,                     \* each caller's position in HostSeries
    localErr,               \* each caller's local variable err
    ret,                    \* what each caller's last call returned
    calls,                  \* calls of HostSeries started by each caller
    reads,                  \* executions of readSeries
    returned                \* every (series, error) pair a call returned

httpVars   == <<inited, OutgoingAccessAllowed, defaultTransport, client, dial>>
addrVars   == <<addrIn, addrOut>>
authVars   == <<enc, stage, hdr, parsed>>
seriesVars == <<seriesOnce, series, seriesErr, pc, localErr, ret, calls, reads, returned>>
vars       == <<httpVars, addrVars, addrVars, authVars, seriesVars>>

(***************************************************************************)
(* Bounds.                                                                 *)
(***************************************************************************)
MaxCerts   == 2     \* longest certs argument of GetHTTPClient
MaxCredLen == 2     \* longest username / password
NumCallers == 2     \* goroutines calling HostSeries
MaxCalls   == 2     \* calls of HostSeries per goroutine

(***************************************************************************)
(* String helpers (1-based; 0 means "not found").                          *)
(***************************************************************************)
RECURSIVE IndexFrom(_, _, _)
IndexFrom(s, c, i) ==
    IF i > Len(s) THEN 0
    ELSE IF s[i] = c THEN i
    ELSE IndexFrom(s, c, i + 1)

IndexByte(s, c) == IndexFrom(s, c, 1)

RECURSIVE LastIndexFrom(_, _, _)
LastIndexFrom(s, c, i) ==
    IF i < 1 THEN 0
    ELSE IF s[i] = c THEN i
    ELSE LastIndexFrom(s, c, i - 1)

LastIndexByte(s, c) == LastIndexFrom(s, c, Len(s))

Drop(s, n) == SubSeq(s, n + 1, Len(s))

(***************************************************************************)
(* net.SplitHostPort, as called at src/http.go:134.                        *)
(* Result: [host, port, err].                                              *)
(***************************************************************************)
AddrErr == [host |-> <<>>, port |-> <<>>, err |-> TRUE]

SplitHostPort(hostport) ==
    LET n == Len(hostport)
        i == LastIndexByte(hostport, ":")      \* the port starts after the last colon
    IN  IF i = 0 THEN AddrErr                  \* missing port
        ELSE
        LET bracket == hostport[1] = "["
            end     == IndexByte(hostport, "]")
        IN  IF bracket /\ end = 0 THEN AddrErr              \* missing ']'
            ELSE IF bracket /\ end = n THEN AddrErr         \* missing port
            ELSE IF bracket /\ end # i - 1 THEN AddrErr     \* too many colons / missing port
            ELSE
            LET host == IF bracket THEN SubSeq(hostport, 2, end - 1)
                                   ELSE SubSeq(hostport, 1, i - 1)
                j    == IF bracket THEN 1 ELSE 0
                k    == IF bracket THEN end ELSE 0
            IN  IF ~bracket /\ IndexByte(host, ":") # 0 THEN AddrErr   \* too many colons
                ELSE IF IndexByte(Drop(hostport, j), "[") # 0 THEN AddrErr
                ELSE IF IndexByte(Drop(hostport, k), "]") # 0 THEN AddrErr
                ELSE [host |-> host, port |-> Drop(hostport, i), err |-> FALSE]

(***************************************************************************)
(* net.ParseIP and IP.IsLoopback, as called at src/http.go:138.            *)
(* An IP is a sequence of 16 bytes; <<>> is the nil IP.                    *)
(***************************************************************************)
DecDigits == <<"0", "1", "2", "3", "4", "5", "6", "7", "8", "9">>
HexDigits == <<"0", "1", "2", "3", "4", "5", "6", "7", "8", "9",
               "a", "b", "c", "d", "e", "f">>
HexUpper  == <<"0", "1", "2", "3", "4", "5", "6", "7", "8", "9",
               "A", "B", "C", "D", "E", "F">>

IsDec(c) == \E d \in 1..10 : DecDigits[d] = c
DecVal(c) == (CHOOSE d \in 1..10 : DecDigits[d] = c) - 1
IsHex(c) == \E d \in 1..16 : HexDigits[d] = c \/ HexUpper[d] = c
HexVal(c) == (CHOOSE d \in 1..16 : HexDigits[d] = c \/ HexUpper[d] = c) - 1

\* dtoi: decimal prefix of s. [n, c, ok], c = characters consumed.
RECURSIVE dtoiFrom(_, _, _)
dtoiFrom(s, i, n) ==
    IF i <= Len(s) /\ IsDec(s[i])
    THEN LET m == n * 10 + DecVal(s[i])
         IN  IF m >= 16777215 THEN [n |-> 16777215, c |-> i - 1, ok |-> FALSE]
             ELSE dtoiFrom(s, i + 1, m)
    ELSE IF i = 1 THEN [n |-> 0, c |-> 0, ok |-> FALSE]
    ELSE [n |-> n, c |-> i - 1, ok |-> TRUE]

dtoi(s) == dtoiFrom(s, 1, 0)

\* xtoi: hexadecimal prefix of s.
RECURSIVE xtoiFrom(_, _, _)
xtoiFrom(s, i, n) ==
    IF i <= Len(s) /\ IsHex(s[i])
    THEN LET m == n * 16 + HexVal(s[i])
         IN  IF m >= 16777215 THEN [n |-> 0, c |-> i - 1, ok |-> FALSE]
             ELSE xtoiFrom(s, i + 1, m)
    ELSE IF i = 1 THEN [n |-> 0, c |-> 0, ok |-> FALSE]
    ELSE [n |-> n, c |-> i - 1, ok |-> TRUE]

xtoi(s) == xtoiFrom(s, 1, 0)

Zeros(n) == [x \in 1..n |-> 0]

\* parseIPv4's loop over the four octets: the 4 bytes, or <<>>.
RECURSIVE v4Loop(_, _, _)
v4Loop(s, i, p) ==
    IF i = 4 THEN (IF Len(s) # 0 THEN <<>> ELSE p)
    ELSE IF Len(s) = 0 THEN <<>>                      \* missing octets
    ELSE IF i > 0 /\ s[1] # "." THEN <<>>
    ELSE LET t == IF i > 0 THEN Drop(s, 1) ELSE s
             d == dtoi(t)
         IN  IF ~d.ok \/ d.n > 255 THEN <<>>
             ELSE IF d.c > 1 /\ t[1] = "0" THEN <<>>  \* leading zeros
             ELSE v4Loop(Drop(t, d.c), i + 1, Append(p, d.n))

IPv4(p) == Zeros(10) \o <<255, 255>> \o p

parseIPv4(s) ==
    LET p == v4Loop(s, 0, <<>>)
    IN  IF p = <<>> THEN <<>> ELSE IPv4(p)

\* parseIPv6's loop. st = [ok, s, i, ellipsis, ip]; ip holds the i bytes parsed.
RECURSIVE v6Loop(_)
v6Loop(st) ==
    IF st.i >= 16 THEN st
    ELSE
    LET s == st.s
        x == xtoi(s)
        bad == [st EXCEPT !.ok = FALSE]
    IN  IF ~x.ok \/ x.n > 65535 THEN bad
        ELSE IF x.c < Len(s) /\ s[x.c + 1] = "."
        THEN \* trailing IPv4
             IF st.ellipsis < 0 /\ st.i # 12 THEN bad
             ELSE IF st.i + 4 > 16 THEN bad
             ELSE LET ip4 == parseIPv4(s)
                  IN  IF ip4 = <<>> THEN bad
                      ELSE [st EXCEPT !.s = <<>>, !.i = st.i + 4,
                                      !.ip = st.ip \o SubSeq(ip4, 13, 16)]
        ELSE
        LET ip1 == st.ip \o << x.n \div 256, x.n % 256 >>
            i1  == st.i + 2
            s1  == Drop(s, x.c)
        IN  IF Len(s1) = 0 THEN [st EXCEPT !.s = s1, !.i = i1, !.ip = ip1]
            ELSE IF s1[1] # ":" \/ Len(s1) = 1 THEN bad
            ELSE LET s2 == Drop(s1, 1)
                 IN  IF s2[1] = ":"
                     THEN IF st.ellipsis >= 0 THEN bad
                          ELSE IF Len(s2) = 1
                               THEN [st EXCEPT !.s = <<>>, !.i = i1, !.ip = ip1,
                                               !.ellipsis = i1]
                               ELSE v6Loop([st EXCEPT !.s = Drop(s2, 1), !.i = i1,
                                                      !.ip = ip1, !.ellipsis = i1])
                     ELSE v6Loop([st EXCEPT !.s = s2, !.i = i1, !.ip = ip1])

parseIPv6(s) ==
    LET lead == Len(s) >= 2 /\ s[1] = ":" /\ s[2] = ":"
        s0   == IF lead THEN Drop(s, 2) ELSE s
    IN  IF lead /\ Len(s0) = 0 THEN Zeros(16)
        ELSE
        LET st == v6Loop([ok |-> TRUE, s |-> s0, i |-> 0,
                          ellipsis |-> IF lead THEN 0 ELSE -1, ip |-> <<>>])
        IN  IF ~st.ok THEN <<>>
            ELSE IF Len(st.s) # 0 THEN <<>>
            ELSE IF st.i < 16
                 THEN IF st.ellipsis < 0 THEN <<>>
                      ELSE SubSeq(st.ip, 1, st.ellipsis) \o Zeros(16 - st.i)
                           \o SubSeq(st.ip, st.ellipsis + 1, st.i)
            ELSE IF st.ellipsis >= 0 THEN <<>>
            ELSE st.ip

RECURSIVE ParseIPFrom(_, _)
ParseIPFrom(s, i) ==
    IF i > Len(s) THEN <<>>
    ELSE IF s[i] = "." THEN parseIPv4(s)
    ELSE IF s[i] = ":" THEN parseIPv6(s)
    ELSE ParseIPFrom(s, i + 1)

ParseIP(s) == ParseIPFrom(s, 1)

\* IP.To4: the 4 bytes of an IPv4 (or IPv4-mapped) address, or <<>>.
To4(ip) ==
    IF Len(ip) = 16 /\ SubSeq(ip, 1, 10) = Zeros(10) /\ ip[11] = 255 /\ ip[12] = 255
    THEN SubSeq(ip, 13, 16)
    ELSE <<>>

IsLoopback(ip) ==
    IF To4(ip) # <<>> THEN To4(ip)[1] = 127
    ELSE ip = Zeros(15) \o <<1>>

localhost == <<"l", "o", "c", "a", "l", "h", "o", "s", "t">>

\* A slip that forgets the loopback IPs.
isLocalAddrNameOnly(addr) ==
    LET r == SplitHostPort(addr)
    IN  IF r.err THEN FALSE ELSE r.host = localhost

\* A slip that takes the host to be what stands before the first colon.
isLocalAddrFirstColon(addr) ==
    LET i    == IndexByte(addr, ":")
        host == IF i = 0 THEN addr ELSE SubSeq(addr, 1, i - 1)
    IN  host = localhost \/ IsLoopback(ParseIP(host))

\* src/http.go:133 isLocalAddr
isLocalAddr(addr) ==
    LET r == SplitHostPort(addr)
    IN  IF r.err THEN FALSE
        ELSE r.host = localhost \/ IsLoopback(ParseIP(r.host))


(***************************************************************************)
(* Transports, TLS configurations and clients.  An optional (nil-able)     *)
(* value is a sequence: <<>> is nil, <<v>> is a pointer to v.              *)
(***************************************************************************)
\* src/http.go:35 and :38
VerifySSLHostnames   == TRUE
NoVerifySSLHostnames == FALSE

\* The zero tls.Config, and the zero http.Transport.
ZeroTLSConfig == [InsecureSkipVerify |-> FALSE, RootCAs |-> <<>>]
ZeroTransport == [Dial |-> "default", TLSClientConfig |-> <<>>, file |-> FALSE]

\* tls.go SecureTLSConfig (spec 4.1): no trust pool, verification on.
SecureTLSConfig == [InsecureSkipVerify |-> FALSE, RootCAs |-> <<>>]

\* installHTTPDialShim (spec 4.4): the transport's dial function is the gate.
installHTTPDialShim(t) == [t EXCEPT !.Dial = "shim"]

\* src/http.go:23 registerFileProtocol
registerFileProtocol(t) == [t EXCEPT !.file = TRUE]

\* tls.go NewHttpTLSTransport (spec 4.4): a fresh transport with the TLS
\* configuration, the dial shim and the file protocol.
NewHttpTLSTransport(tlsConfig) ==
    registerFileProtocol(
        installHTTPDialShim([ZeroTransport EXCEPT !.TLSClientConfig = <<tlsConfig>>]))

\* A certs argument is a PEM text: the sequence of its PEM blocks.  A block is
\* a certificate ("certA", "certB") or something AppendCertsFromPEM skips.
ValidCerts == {"certA", "certB"}
PEMTexts   == { <<"certA">>, <<"junk">>, <<"certA", "certB">> }

\* x509.CertPool.AppendCertsFromPEM, as called at src/http.go:63.
AppendCertsFromPEM(pool, pem) ==
    pool \cup {pem[i] : i \in {j \in 1..Len(pem) : pem[j] \in ValidCerts}}

RECURSIVE PoolOf(_, _)
PoolOf(pool, certs) ==
    IF certs = <<>> THEN pool
    ELSE PoolOf(AppendCertsFromPEM(pool, Head(certs)), Tail(certs))

\* A slip that lets skip-verify replace the pool instead of layering on it.
getHTTPClientWithCertsClearing(verify, certs) ==
    IF Len(certs) = 0 THEN <<>>
    ELSE LET pool == PoolOf({}, certs)
             cfg  == IF verify = NoVerifySSLHostnames
                     THEN [SecureTLSConfig EXCEPT !.InsecureSkipVerify = TRUE]
                     ELSE [SecureTLSConfig EXCEPT !.RootCAs = <<pool>>]
         IN  << [Transport |-> <<NewHttpTLSTransport(cfg)>>] >>

\* src/http.go:57 getHTTPClientWithCerts
getHTTPClientWithCerts(verify, certs) ==
    IF Len(certs) = 0 THEN <<>>
    ELSE LET pool == PoolOf({}, certs)
             cfg0 == [SecureTLSConfig EXCEPT !.RootCAs = <<pool>>]
             cfg  == IF verify = NoVerifySSLHostnames
                     THEN [cfg0 EXCEPT !.InsecureSkipVerify = TRUE]
                     ELSE cfg0
         IN  << [Transport |-> <<NewHttpTLSTransport(cfg)>>] >>

\* A slip that gives the validating client a transport of its own, which
\* nothing has shimmed.
GetValidatingHTTPClientOwnTransport == << [Transport |-> <<ZeroTransport>>] >>

\* src/http.go:77 GetValidatingHTTPClient: &http.Client{}
GetValidatingHTTPClient == << [Transport |-> <<>>] >>

\* src/http.go:83 GetNonValidatingHTTPClient
GetNonValidatingHTTPClient ==
    << [Transport |-> <<NewHttpTLSTransport(
                          [ZeroTLSConfig EXCEPT !.InsecureSkipVerify = TRUE])>>] >>

\* A slip in the length test that sends an empty certs to getHTTPClientWithCerts.
GetHTTPClientAlwaysCerts(verify, certs) ==
    IF Len(certs) >= 0 THEN getHTTPClientWithCerts(verify, certs)
    ELSE IF verify = VerifySSLHostnames THEN GetValidatingHTTPClient
    ELSE GetNonValidatingHTTPClient

\* src/http.go:43 GetHTTPClient
GetHTTPClient(verify, certs) ==
    IF Len(certs) > 0 THEN getHTTPClientWithCerts(verify, certs)
    ELSE IF verify = VerifySSLHostnames THEN GetValidatingHTTPClient
    ELSE GetNonValidatingHTTPClient

\* http.Client.transport(): a nil Transport means http.DefaultTransport.
TransportOf(c) ==
    IF c.Transport = <<>> THEN defaultTransport ELSE c.Transport[1]

\* The TLS policy a transport applies: a nil TLSClientConfig is the zero one.
TLSOf(t) ==
    IF t.TLSClientConfig = <<>> THEN ZeroTLSConfig ELSE t.TLSClientConfig[1]


(***************************************************************************)
(* The addresses dialled.  Each is written from a host and a form; loop    *)
(* says whether the host names the loopback interface ("localhost",        *)
(* 127.0.0.0/8, ::1) and colons whether the host itself holds a colon.     *)
(***************************************************************************)
HostTable == <<
    \* "localhost"
    [h |-> <<"l", "o", "c", "a", "l", "h", "o", "s", "t">>,
     loop |-> TRUE, colons |-> FALSE],
    \* "127.0.0.1"
    [h |-> <<"1", "2", "7", ".", "0", ".", "0", ".", "1">>,
     loop |-> TRUE, colons |-> FALSE],
    \* "127.255.0.9"
    [h |-> <<"1", "2", "7", ".", "2", "5", "5", ".", "0", ".", "9">>,
     loop |-> TRUE, colons |-> FALSE],
    \* "::1"
    [h |-> <<":", ":", "1">>,
     loop |-> TRUE, colons |-> TRUE],
    \* "0:0:0:0:0:0:0:1"
    [h |-> <<"0", ":", "0", ":", "0", ":", "0", ":", "0", ":", "0", ":", "0", ":", "1">>,
     loop |-> TRUE, colons |-> TRUE],
    \* "::ffff:127.0.0.1"
    [h |-> <<":", ":", "f", "f", "f", "f", ":", "1", "2", "7", ".", "0", ".", "0", ".", "1">>,
     loop |-> TRUE, colons |-> TRUE],
    \* "93.184.216.34"
    [h |-> <<"9", "3", ".", "1", "8", "4", ".", "2", "1", "6", ".", "3", "4">>,
     loop |-> FALSE, colons |-> FALSE],
    \* "128.0.0.1"
    [h |-> <<"1", "2", "8", ".", "0", ".", "0", ".", "1">>,
     loop |-> FALSE, colons |-> FALSE],
    \* "::2"
    [h |-> <<":", ":", "2">>,
     loop |-> FALSE, colons |-> TRUE],
    \* "1::1"
    [h |-> <<"1", ":", ":", "1">>,
     loop |-> FALSE, colons |-> TRUE],
    \* "::"
    [h |-> <<":", ":">>,
     loop |-> FALSE, colons |-> TRUE],
    \* "LOCALHOST"
    [h |-> <<"L", "O", "C", "A", "L", "H", "O", "S", "T">>,
     loop |-> FALSE, colons |-> FALSE],
    \* "bad-addr"
    [h |-> <<"b", "a", "d", "-", "a", "d", "d", "r">>,
     loop |-> FALSE, colons |-> FALSE],
    \* ""
    [h |-> <<>>,
     loop |-> FALSE, colons |-> FALSE],
    \* "127.0.0.256"
    [h |-> <<"1", "2", "7", ".", "0", ".", "0", ".", "2", "5", "6">>,
     loop |-> FALSE, colons |-> FALSE],
    \* "127.0.0"
    [h |-> <<"1", "2", "7", ".", "0", ".", "0">>,
     loop |-> FALSE, colons |-> FALSE]
>>

Forms == {"plain", "bracket", "noport", "bracketnoport", "extracolon", "emptyport"}

Render(form, h) ==
    CASE form = "plain"         -> h \o <<":", "8", "0">>
      [] form = "bracket"       -> <<"[">> \o h \o <<"]", ":", "8", "0">>
      [] form = "noport"        -> h
      [] form = "bracketnoport" -> <<"[">> \o h \o <<"]">>
      [] form = "extracolon"    -> h \o <<":", "8", "0", ":", "9", "0">>
      [] form = "emptyport"     -> h \o <<":">>

(***************************************************************************)
(* The dial gate (spec 4.3): the shim installHTTPDialShim installs refuses *)
(* when OutgoingAccessAllowed is false and the address is not local.       *)
(***************************************************************************)
DialGateRefuses(addr) == ~OutgoingAccessAllowed /\ ~isLocalAddr(addr)

\* The addresses the model's clients dial: "localhost:80", "127.0.0.1:80",
\* "[::1]:80", "::1:80", "93.184.216.34:80", "[::2]:80", "bad-addr",
\* "LOCALHOST:80" and "localhost" (no port).
DialTargets == { <<"plain", 1>>, <<"plain", 2>>, <<"bracket", 4>>, <<"plain", 4>>,
                 <<"plain", 7>>, <<"bracket", 9>>, <<"noport", 13>>,
                 <<"plain", 12>>, <<"noport", 1>> }

NoClient == [built |-> FALSE, c |-> <<>>, verify |-> TRUE, certs |-> <<>>,
             builtWhile |-> TRUE]

Idle == [phase |-> "idle", addr |-> <<>>, form |-> "plain", host |-> 1,
         gated |-> FALSE, flagAtCheck |-> TRUE, attempted |-> FALSE]

CertArgs == UNION {[1..n -> PEMTexts] : n \in 0..MaxCerts}

(***************************************************************************)
(* Actions of src/http.go.                                                 *)
(***************************************************************************)
\* A slip that forgets the shim on the default transport.
initNoShim ==
    /\ ~inited
    /\ inited' = TRUE
    /\ defaultTransport' = registerFileProtocol(defaultTransport)
    /\ UNCHANGED <<OutgoingAccessAllowed, client, dial, addrVars, authVars, seriesVars>>

\* src/http.go:16 init
init ==
    /\ ~inited
    /\ inited' = TRUE
    /\ defaultTransport' = registerFileProtocol(installHTTPDialShim(defaultTransport))
    /\ UNCHANGED <<OutgoingAccessAllowed, client, dial, addrVars, authVars, seriesVars>>

\* src/http.go:131: control code assigns the package variable.  The variable
\* is a plain bool read by dials without synchronisation: a read racing with
\* the write sees the old or the new value, which is this step taken after or
\* before the read.
SetOutgoingAccessAllowed(b) ==
    /\ inited
    /\ OutgoingAccessAllowed' = b
    /\ UNCHANGED <<inited, defaultTransport, client, dial, addrVars, authVars, seriesVars>>

\* A caller obtains a client from src/http.go:43 GetHTTPClient.
CallGetHTTPClient(verify, certs) ==
    /\ inited
    /\ client' = [built |-> TRUE, c |-> GetHTTPClient(verify, certs),
                  verify |-> verify, certs |-> certs,
                  builtWhile |-> OutgoingAccessAllowed]
    /\ dial' = Idle
    /\ UNCHANGED <<inited, OutgoingAccessAllowed, defaultTransport, addrVars, authVars, seriesVars>>

\* The client's transport dials addr: its dial function runs first.  With the
\* shim installed that is the gate, which reads OutgoingAccessAllowed now.
DialCheck(form, host) ==
    /\ inited
    /\ client.c # <<>>
    /\ dial.phase # "passed"
    /\ LET t    == TransportOf(client.c[1])
           addr == Render(form, HostTable[host].h)
           d    == [phase |-> "passed", addr |-> addr, form |-> form, host |-> host,
                    gated |-> t.Dial = "shim",
                    flagAtCheck |-> OutgoingAccessAllowed, attempted |-> FALSE]
       IN  dial' = IF t.Dial = "shim" /\ DialGateRefuses(addr)
                   THEN [d EXCEPT !.phase = "refused"]
                   ELSE d
    /\ UNCHANGED <<inited, OutgoingAccessAllowed, defaultTransport, client,
                   addrVars, authVars, seriesVars>>

\* The dial that passed is handed to the underlying dialer, which connects or
\* fails on the network.
UnderlyingDial(ok) ==
    /\ dial.phase = "passed"
    /\ dial' = [dial EXCEPT !.phase = IF ok THEN "connected" ELSE "neterror",
                            !.attempted = TRUE]
    /\ UNCHANGED <<inited, OutgoingAccessAllowed, defaultTransport, client,
                   addrVars, authVars, seriesVars>>

NextHTTP ==
    \/ init
    \/ \E b \in BOOLEAN : SetOutgoingAccessAllowed(b)
    \/ \E verify \in BOOLEAN, certs \in CertArgs : CallGetHTTPClient(verify, certs)
    \/ \E target \in DialTargets : DialCheck(target[1], target[2])
    \/ \E ok \in BOOLEAN : UnderlyingDial(ok)

(***************************************************************************)
(* isLocalAddr applied to the address under test.                          *)
(***************************************************************************)
NoAddr == [form |-> "none", host |-> 1]
AddrInputs == [form : Forms, host : 1..Len(HostTable)] \cup {NoAddr}

Classify ==
    /\ addrIn.form # "none"
    /\ ~addrOut.done
    /\ addrOut' = [done |-> TRUE,
                   local |-> isLocalAddr(Render(addrIn.form, HostTable[addrIn.host].h))]
    /\ UNCHANGED <<addrIn, httpVars, authVars, seriesVars>>

NextAddr == Classify


(***************************************************************************)
(* Basic-Auth codec.  Strings are sequences of bytes.                      *)
(***************************************************************************)
Basic  == <<66, 97, 115, 105, 99>>         \* "Basic"
Colon  == <<58>>                           \* ":"
Space  == <<32>>                           \* " "

\* encoding/base64 StdEncoding: the alphabet A-Z a-z 0-9 + / and the pad '='.
B64Char(v) ==
    IF v < 26 THEN 65 + v
    ELSE IF v < 52 THEN 97 + (v - 26)
    ELSE IF v < 62 THEN 48 + (v - 52)
    ELSE IF v = 62 THEN 43 ELSE 47

IsB64(c) == \E v \in 0..63 : B64Char(v) = c
B64Val(c) == CHOOSE v \in 0..63 : B64Char(v) = c

\* base64.StdEncoding.EncodeToString, as called at src/http.go:100.
RECURSIVE EncodeToString(_)
EncodeToString(s) ==
    IF Len(s) = 0 THEN <<>>
    ELSE IF Len(s) = 1
    THEN << B64Char(s[1] \div 4), B64Char((s[1] % 4) * 16), 61, 61 >>
    ELSE IF Len(s) = 2
    THEN << B64Char(s[1] \div 4), B64Char((s[1] % 4) * 16 + s[2] \div 16),
            B64Char((s[2] % 16) * 4), 61 >>
    ELSE << B64Char(s[1] \div 4), B64Char((s[1] % 4) * 16 + s[2] \div 16),
            B64Char((s[2] % 16) * 4 + s[3] \div 64), B64Char(s[3] % 64) >>
         \o EncodeToString(Drop(s, 3))

\* The same without padding (base64.RawStdEncoding).
RECURSIVE RawEncodeToString(_)
RawEncodeToString(s) ==
    IF Len(s) = 0 THEN <<>>
    ELSE IF Len(s) = 1
    THEN << B64Char(s[1] \div 4), B64Char((s[1] % 4) * 16) >>
    ELSE IF Len(s) = 2
    THEN << B64Char(s[1] \div 4), B64Char((s[1] % 4) * 16 + s[2] \div 16),
            B64Char((s[2] % 16) * 4) >>
    ELSE << B64Char(s[1] \div 4), B64Char((s[1] % 4) * 16 + s[2] \div 16),
            B64Char((s[2] % 16) * 4 + s[3] \div 64), B64Char(s[3] % 64) >>
         \o RawEncodeToString(Drop(s, 3))

\* The decoder skips '\r' and '\n' wherever they stand.
RECURSIVE StripNewlines(_)
StripNewlines(s) ==
    IF Len(s) = 0 THEN <<>>
    ELSE IF s[1] = 10 \/ s[1] = 13 THEN StripNewlines(Tail(s))
    ELSE <<s[1]>> \o StripNewlines(Tail(s))

\* One quantum of four characters: [ok, bytes].  Padding only ends the input.
DecodeQuantum(q, last) ==
    LET v(i) == B64Val(q[i])
        b1 == v(1) * 4 + v(2) \div 16
        b2 == (v(2) % 16) * 16 + v(3) \div 4
        b3 == (v(3) % 4) * 64 + v(4)
    IN  IF ~IsB64(q[1]) \/ ~IsB64(q[2]) THEN [ok |-> FALSE, bytes |-> <<>>]
        ELSE IF IsB64(q[3]) /\ IsB64(q[4]) THEN [ok |-> TRUE, bytes |-> <<b1, b2, b3>>]
        ELSE IF last /\ IsB64(q[3]) /\ q[4] = 61 THEN [ok |-> TRUE, bytes |-> <<b1, b2>>]
        ELSE IF last /\ q[3] = 61 /\ q[4] = 61 THEN [ok |-> TRUE, bytes |-> <<b1>>]
        ELSE [ok |-> FALSE, bytes |-> <<>>]

RECURSIVE DecodeQuanta(_)
DecodeQuanta(s) ==
    IF Len(s) = 0 THEN [ok |-> TRUE, bytes |-> <<>>]
    ELSE IF Len(s) < 4 THEN [ok |-> FALSE, bytes |-> <<>>]
    ELSE LET q == DecodeQuantum(SubSeq(s, 1, 4), Len(s) = 4)
             r == DecodeQuanta(Drop(s, 4))
         IN  IF q.ok /\ r.ok THEN [ok |-> TRUE, bytes |-> q.bytes \o r.bytes]
             ELSE [ok |-> FALSE, bytes |-> <<>>]

\* base64.StdEncoding.DecodeString, as called at src/http.go:118.
DecodeString(s) == DecodeQuanta(StripNewlines(s))

\* unicode/utf8 decoding of the first rune of a non-empty string, as the
\* range loop of strings.FieldsFunc does it: [r, size].  A byte that starts
\* no valid encoding is RuneError (U+FFFD) of width 1.
Cont(s, i, lo, hi) == i <= Len(s) /\ s[i] >= lo /\ s[i] <= hi

DecodeRune(s) ==
    LET b0 == s[1]
        bad == [r |-> 65533, size |-> 1]
        lo2 == IF b0 = 224 THEN 160 ELSE IF b0 = 240 THEN 144 ELSE 128
        hi2 == IF b0 = 237 THEN 159 ELSE IF b0 = 244 THEN 143 ELSE 191
    IN  IF b0 < 128 THEN [r |-> b0, size |-> 1]
        ELSE IF b0 >= 194 /\ b0 <= 223
        THEN IF Cont(s, 2, 128, 191)
             THEN [r |-> (b0 % 32) * 64 + (s[2] % 64), size |-> 2]
             ELSE bad
        ELSE IF b0 >= 224 /\ b0 <= 239
        THEN IF Cont(s, 2, lo2, hi2) /\ Cont(s, 3, 128, 191)
             THEN [r |-> (b0 % 16) * 4096 + (s[2] % 64) * 64 + (s[3] % 64), size |-> 3]
             ELSE bad
        ELSE IF b0 >= 240 /\ b0 <= 244
        THEN IF Cont(s, 2, lo2, hi2) /\ Cont(s, 3, 128, 191) /\ Cont(s, 4, 128, 191)
             THEN [r |-> (b0 % 8) * 262144 + (s[2] % 64) * 4096
                         + (s[3] % 64) * 64 + (s[4] % 64), size |-> 4]
             ELSE bad
        ELSE bad

\* unicode.IsSpace on a rune: '\t', '\n', '\v', '\f', '\r', ' ', U+0085 and
\* U+00A0 in Latin-1, and the White_Space property beyond it.
IsSpace(r) ==
    IF r <= 255 THEN r \in {9, 10, 11, 12, 13, 32, 133, 160}
    ELSE \/ r = 5760
         \/ r >= 8192 /\ r <= 8202
         \/ r \in {8232, 8233, 8239, 8287, 12288}

\* strings.Fields, as called at src/http.go:112: the maximal runs of bytes
\* between runs of white-space runes.
RECURSIVE FieldsFrom(_, _, _)
FieldsFrom(s, cur, acc) ==
    IF Len(s) = 0 THEN (IF cur = <<>> THEN acc ELSE Append(acc, cur))
    ELSE LET d == DecodeRune(s)
         IN  IF IsSpace(d.r)
             THEN FieldsFrom(Drop(s, d.size), <<>>,
                             IF cur = <<>> THEN acc ELSE Append(acc, cur))
             ELSE FieldsFrom(Drop(s, d.size), cur \o SubSeq(s, 1, d.size), acc)

Fields(s) == FieldsFrom(s, <<>>, <<>>)

\* strings.SplitN(s, ":", 2), as called at src/http.go:122.
SplitN2(s) ==
    LET i == IndexByte(s, 58)
    IN  IF i = 0 THEN <<s>> ELSE << SubSeq(s, 1, i - 1), Drop(s, i) >>

\* http.Header.Get("Authorization"): the value, or "" when there is none.
HeaderGet(h) == IF h.present THEN h.value ELSE <<>>

\* A slip that encodes without padding.
BasicAuthHeaderRaw(username, password) ==
    LET auth == username \o Colon \o password
    IN  [present |-> TRUE, value |-> Basic \o Space \o RawEncodeToString(auth)]

\* src/http.go:98 BasicAuthHeader
BasicAuthHeader(username, password) ==
    LET auth == username \o Colon \o password
    IN  [present |-> TRUE, value |-> Basic \o Space \o EncodeToString(auth)]

AuthFail(msg) == [userid |-> <<>>, password |-> <<>>, err |-> msg]

\* ParseBasicAuthHeader after the scheme test, from src/http.go:118 on.
ParseChallenge(token) ==
    LET challenge == DecodeString(token)
    IN  IF ~challenge.ok THEN AuthFail("invalid HTTP auth encoding")
        ELSE LET tokens == SplitN2(challenge.bytes)
             IN  IF Len(tokens) # 2 THEN AuthFail("invalid HTTP auth contents")
                 ELSE [userid |-> tokens[1], password |-> tokens[2], err |-> "nil"]

\* ASCII case folding, for the slip below.
Lower(s) == [i \in 1..Len(s) |-> IF s[i] >= 65 /\ s[i] <= 90 THEN s[i] + 32 ELSE s[i]]

\* A slip that lets further fields follow the token.
ParseBasicAuthHeaderExtraFields(h) ==
    LET parts == Fields(HeaderGet(h))
    IN  IF Len(parts) < 2 \/ parts[1] # Basic
        THEN AuthFail("invalid or missing HTTP auth header")
        ELSE ParseChallenge(parts[2])

\* A slip that compares the scheme without regard to case.
ParseBasicAuthHeaderAnyCase(h) ==
    LET parts == Fields(HeaderGet(h))
    IN  IF Len(parts) # 2 \/ Lower(parts[1]) # Lower(Basic)
        THEN AuthFail("invalid or missing HTTP auth header")
        ELSE ParseChallenge(parts[2])

\* src/http.go:111 ParseBasicAuthHeader
ParseBasicAuthHeader(h) ==
    LET parts == Fields(HeaderGet(h))
    IN  IF Len(parts) # 2 \/ parts[1] # Basic
        THEN AuthFail("invalid or missing HTTP auth header")
        ELSE ParseChallenge(parts[2])

(***************************************************************************)
(* The inputs of the codec.                                                *)
(***************************************************************************)
\* Credential bytes: 'a', ':', ' ' and 0xFF.
CredBytes == {97, 58, 32, 255}
Creds == UNION {[1..n -> CredBytes] : n \in 0..MaxCredLen}

\* Header values written from parts: lead scheme sep token trail [" x"].
\* Each token says whether it is valid base64 (b64), whether its payload holds
\* a colon, and the credentials it then carries.
Schemes == << Basic,
              <<98, 97, 115, 105, 99>>,       \* "basic"
              <<66, 65, 83, 73, 67>>,         \* "BASIC"
              <<66, 101, 97, 114, 101, 114>>, \* "Bearer"
              <<>> >>
Leads   == << <<>>, <<32>>, <<9>>,
              <<194, 160>> >>                 \* U+00A0 NO-BREAK SPACE
Seps    == << <<32>>, <<>>, <<32, 32>>, <<9>>, <<32, 9, 32>>,
              <<194, 160>>,                   \* U+00A0 NO-BREAK SPACE
              <<226, 128, 131>>,              \* U+2003 EM SPACE
              <<160>>,                        \* a lone byte 0xA0: no rune
              <<226, 128, 139>> >>            \* U+200B ZERO WIDTH SPACE
Trails  == << <<>>, <<32>>, <<13, 10>>,
              <<194, 133>> >>                 \* U+0085 NEXT LINE

TokenTable == <<
    \* "YTpi"
    [t |-> <<89, 84, 112, 105>>, b64 |-> TRUE, colon |-> TRUE,
     user |-> <<97>>, pass |-> <<98>>],
    \* "YTpiOmM="
    [t |-> <<89, 84, 112, 105, 79, 109, 77, 61>>, b64 |-> TRUE, colon |-> TRUE,
     user |-> <<97>>, pass |-> <<98, 58, 99>>],
    \* "Og=="
    [t |-> <<79, 103, 61, 61>>, b64 |-> TRUE, colon |-> TRUE,
     user |-> <<>>, pass |-> <<>>],
    \* "YWI="
    [t |-> <<89, 87, 73, 61>>, b64 |-> TRUE, colon |-> FALSE,
     user |-> <<>>, pass |-> <<>>],
    \* "not-base64!!"
    [t |-> <<110, 111, 116, 45, 98, 97, 115, 101, 54, 52, 33, 33>>, b64 |-> FALSE, colon |-> FALSE,
     user |-> <<>>, pass |-> <<>>],
    \* "YTpi="
    [t |-> <<89, 84, 112, 105, 61>>, b64 |-> FALSE, colon |-> FALSE,
     user |-> <<>>, pass |-> <<>>],
    \* "YTp"
    [t |-> <<89, 84, 112>>, b64 |-> FALSE, colon |-> FALSE,
     user |-> <<>>, pass |-> <<>>],
    \* "YT=i"
    [t |-> <<89, 84, 61, 105>>, b64 |-> FALSE, colon |-> FALSE,
     user |-> <<>>, pass |-> <<>>],
    \* ""
    [t |-> <<>>, b64 |-> FALSE, colon |-> FALSE,
     user |-> <<>>, pass |-> <<>>]
>>

RawValue(e) ==
    Leads[e.lead] \o Schemes[e.scheme] \o Seps[e.sep] \o TokenTable[e.tok].t
    \o Trails[e.trail] \o (IF e.extra THEN <<32, 120>> ELSE <<>>)

NoEnc == [kind |-> "none", u |-> <<>>, p |-> <<>>, lead |-> 1, scheme |-> 1,
          sep |-> 1, tok |-> 1, trail |-> 1, extra |-> FALSE]

NotParsed == [done |-> FALSE, userid |-> <<>>, password |-> <<>>, err |-> "nil"]

(***************************************************************************)
(* Actions of the codec.                                                   *)
(***************************************************************************)
RawEncs ==
    [kind : {"raw"}, u : {<<>>}, p : {<<>>}, lead : 1..Len(Leads),
     scheme : 1..Len(Schemes), sep : 1..Len(Seps), tok : 1..Len(TokenTable),
     trail : 1..Len(Trails), extra : BOOLEAN]

EncodedEncs == {[NoEnc EXCEPT !.kind = "encoded", !.u = u, !.p = p] : u \in Creds, p \in Creds}

AuthInputs == EncodedEncs \cup RawEncs \cup {[NoEnc EXCEPT !.kind = "absent"], NoEnc}

\* A client builds the header with src/http.go:98 BasicAuthHeader.
Encode ==
    /\ enc.kind = "encoded"
    /\ stage = "start"
    /\ hdr' = BasicAuthHeader(enc.u, enc.p)
    /\ stage' = "received"
    /\ UNCHANGED <<enc, parsed, httpVars, addrVars, seriesVars>>

\* A request arrives with an Authorization value written by someone else.
ReceiveRaw ==
    /\ enc.kind = "raw"
    /\ stage = "start"
    /\ hdr' = [present |-> TRUE, value |-> RawValue(enc)]
    /\ stage' = "received"
    /\ UNCHANGED <<enc, parsed, httpVars, addrVars, seriesVars>>

\* A request arrives without an Authorization header.
ReceiveNone ==
    /\ enc.kind = "absent"
    /\ stage = "start"
    /\ hdr' = [present |-> FALSE, value |-> <<>>]
    /\ stage' = "received"
    /\ UNCHANGED <<enc, parsed, httpVars, addrVars, seriesVars>>

\* The server calls src/http.go:111 ParseBasicAuthHeader on the header.
Parse ==
    /\ stage = "received"
    /\ LET r == ParseBasicAuthHeader(hdr)
       IN  parsed' = [done |-> TRUE, userid |-> r.userid, password |-> r.password,
                      err |-> r.err]
    /\ stage' = "parsed"
    /\ UNCHANGED <<enc, hdr, httpVars, addrVars, seriesVars>>

NextAuth ==
    \/ Encode
    \/ ReceiveRaw
    \/ ReceiveNone
    \/ Parse

(***************************************************************************)
(* The series package: HostSeries under sync.Once.  An error is a sequence *)
(* of messages, <<>> being nil.                                            *)
(***************************************************************************)
Callers == 1..NumCallers

\* readSeries reads the host's release files: a series, or an error.
ReadSeriesResults ==
    { [series |-> "xenial",  err |-> <<>>],
      [series |-> "trusty",  err |-> <<>>],
      [series |-> "unknown", err |-> <<"cannot read os-release">>] }

\* errors.Annotate, as called at unnamed/part_000:37.
Annotate(err, msg) == <<msg>> \o err

\* A call starts: var err error (unnamed/part_000:33).
HostSeriesCall(g) ==
    /\ pc[g] = "idle"
    /\ calls[g] < MaxCalls
    /\ calls' = [calls EXCEPT ![g] = @ + 1]
    /\ localErr' = [localErr EXCEPT ![g] = <<>>]
    /\ pc' = [pc EXCEPT ![g] = "do"]
    /\ UNCHANGED <<seriesOnce, series, seriesErr, ret, reads, returned,
                   httpVars, addrVars, authVars>>

\* seriesOnce.Do, fast path: done is loaded atomically.
OnceDo(g) ==
    /\ pc[g] = "do"
    /\ pc' = [pc EXCEPT ![g] = IF seriesOnce.done THEN "return" ELSE "lock"]
    /\ UNCHANGED <<seriesOnce, series, seriesErr, localErr, ret, calls, reads,
                   returned, httpVars, addrVars, authVars>>

\* seriesOnce.Do, slow path: take the mutex, then look at done again.
OnceLock(g) ==
    /\ pc[g] = "lock"
    /\ seriesOnce.m = 0
    /\ seriesOnce' = [seriesOnce EXCEPT !.m = g]
    /\ pc' = [pc EXCEPT ![g] = IF seriesOnce.done THEN "unlock" ELSE "read"]
    /\ UNCHANGED <<series, seriesErr, localErr, ret, calls, reads, returned,
                   httpVars, addrVars, authVars>>

\* series, err = readSeries() (unnamed/part_000:35)
HostSeriesRead(g, r) ==
    /\ pc[g] = "read"
    /\ series' = r.series
    /\ localErr' = [localErr EXCEPT ![g] = r.err]
    /\ reads' = Append(reads, r)
    /\ pc' = [pc EXCEPT ![g] = "annotate"]
    /\ UNCHANGED <<seriesOnce, seriesErr, ret, calls, returned, httpVars, addrVars, authVars>>

\* if err != nil { seriesErr = errors.Annotate(...) } (unnamed/part_000:36)
HostSeriesAnnotate(g) ==
    /\ pc[g] = "annotate"
    /\ seriesErr' = IF localErr[g] # <<>>
                    THEN Annotate(localErr[g], "cannot determine host series")
                    ELSE seriesErr
    /\ pc' = [pc EXCEPT ![g] = "store"]
    /\ UNCHANGED <<seriesOnce, series, localErr, ret, calls, reads, returned,
                   httpVars, addrVars, authVars>>

\* The function returned: Once stores done, then releases the mutex.
OnceStore(g) ==
    /\ pc[g] = "store"
    /\ seriesOnce' = [seriesOnce EXCEPT !.done = TRUE]
    /\ pc' = [pc EXCEPT ![g] = "unlock"]
    /\ UNCHANGED <<series, seriesErr, localErr, ret, calls, reads, returned,
                   httpVars, addrVars, authVars>>

OnceUnlock(g) ==
    /\ pc[g] = "unlock"
    /\ seriesOnce' = [seriesOnce EXCEPT !.m = 0]
    /\ pc' = [pc EXCEPT ![g] = "return"]
    /\ UNCHANGED <<series, seriesErr, localErr, ret, calls, reads, returned,
                   httpVars, addrVars, authVars>>

\* A slip that returns the local err instead of the cached seriesErr.
HostSeriesReturnLocalErr(g) ==
    /\ pc[g] = "return"
    /\ ret' = [ret EXCEPT ![g] = << <<series, localErr[g]>> >>]
    /\ returned' = returned \cup { <<series, localErr[g]>> }
    /\ pc' = [pc EXCEPT ![g] = "idle"]
    /\ UNCHANGED <<seriesOnce, series, seriesErr, localErr, calls, reads,
                   httpVars, addrVars, authVars>>

\* return series, seriesErr (unnamed/part_000:40)
HostSeriesReturn(g) ==
    /\ pc[g] = "return"
    /\ ret' = [ret EXCEPT ![g] = << <<series, seriesErr>> >>]
    /\ returned' = returned \cup { <<series, seriesErr>> }
    /\ pc' = [pc EXCEPT ![g] = "idle"]
    /\ UNCHANGED <<seriesOnce, series, seriesErr, localErr, calls, reads,
                   httpVars, addrVars, authVars>>

NextSeries ==
    \E g \in Callers :
        \/ HostSeriesCall(g)
        \/ OnceDo(g)
        \/ OnceLock(g)
        \/ \E r \in ReadSeriesResults : HostSeriesRead(g, r)
        \/ HostSeriesAnnotate(g)
        \/ OnceStore(g)
        \/ OnceUnlock(g)
        \/ HostSeriesReturn(g)

(***************************************************************************)
(* Specifications.  The three parts share no state: each is also checked   *)
(* on its own, the other two standing still.                               *)
(***************************************************************************)
InitHTTP ==
    /\ inited = FALSE
    /\ OutgoingAccessAllowed = TRUE
    /\ defaultTransport = ZeroTransport
    /\ client = NoClient
    /\ dial = Idle

InitAddr(inputs) ==
    /\ addrIn \in inputs
    /\ addrOut = [done |-> FALSE, local |-> FALSE]

InitAuth(inputs) ==
    /\ enc \in inputs
    /\ stage = "start"
    /\ hdr = [present |-> FALSE, value |-> <<>>]
    /\ parsed = NotParsed

InitSeries ==
    /\ seriesOnce = [done |-> FALSE, m |-> 0]
    /\ series = ""
    /\ seriesErr = <<>>
    /\ pc = [g \in Callers |-> "idle"]
    /\ localErr = [g \in Callers |-> <<>>]
    /\ ret = [g \in Callers |-> <<>>]
    /\ calls = [g \in Callers |-> 0]
    /\ reads = <<>>
    /\ returned = {}

Init == InitHTTP /\ InitAddr(AddrInputs) /\ InitAuth(AuthInputs) /\ InitSeries

Next == NextHTTP \/ NextAddr \/ NextAuth \/ NextSeries

Spec == Init /\ [][Next]_vars

\* One part moving, the others standing still with no input.
InitHTTPOnly   == InitHTTP /\ InitAddr({NoAddr}) /\ InitAuth({NoEnc}) /\ InitSeries
InitAddrOnly   == InitHTTP /\ InitAddr(AddrInputs) /\ InitAuth({NoEnc}) /\ InitSeries
InitAuthOnly   == InitHTTP /\ InitAddr({NoAddr}) /\ InitAuth(AuthInputs) /\ InitSeries
InitSeriesOnly == InitHTTPOnly

SpecHTTP   == InitHTTPOnly /\ [][NextHTTP]_vars
SpecAddr   == InitAddrOnly /\ [][NextAddr]_vars
SpecAuth   == InitAuthOnly /\ [][NextAuth]_vars
SpecSeries == InitSeriesOnly /\ [][NextSeries]_vars


(***************************************************************************)
(* What the inputs are known to be, independently of the code: an address  *)
(* is local when its form carries a host and a port and the host names the *)
(* loopback interface; a header carries credentials when it is "Basic",    *)
(* whitespace, and one token that is valid base64 of a text with a colon.  *)
(***************************************************************************)
ExpectedLocal(form, host) ==
    LET e == HostTable[host]
    IN  /\ e.loop
        /\ \/ form \in {"plain", "emptyport"} /\ ~e.colons
           \/ form = "bracket"

\* The separators of Seps that are white space: all but the empty one, the
\* lone byte 0xA0 and U+200B, which is not white space.
SepSplits == {1, 3, 4, 5, 6, 7}

ExpectedPool(certs) ==
    {b \in ValidCerts : \E i \in 1..Len(certs) : \E j \in 1..Len(certs[i]) : certs[i][j] = b}

HasColon(s) == \E i \in 1..Len(s) : s[i] = 58

WellFormed(e) ==
    /\ e.kind = "raw"
    /\ Schemes[e.scheme] = Basic
    /\ e.sep \in SepSplits
    /\ ~e.extra
    /\ TokenTable[e.tok].b64
    /\ TokenTable[e.tok].colon

Canonical(e) == e.lead = 1 /\ e.sep = 1 /\ e.trail = 1 /\ e.scheme = 1 /\ ~e.extra

ParsedOK(e) ==
    /\ parsed.err = "nil"
    /\ parsed.userid = TokenTable[e.tok].user
    /\ parsed.password = TokenTable[e.tok].pass

ParsedErr ==
    /\ parsed.err # "nil"
    /\ parsed.userid = <<>>
    /\ parsed.password = <<>>

(***************************************************************************)
(* Claims.                                                                 *)
(***************************************************************************)

\* C1: a dial checked while OutgoingAccessAllowed is false, to an address that
\* is not local, is refused and never reaches the underlying dialer; every
\* other dial passes the gate and goes on to the underlying dialer.
C1_DialGate ==
    dial.phase # "idle" =>
        LET blocked == ~dial.flagAtCheck /\ ~ExpectedLocal(dial.form, dial.host)
        IN  /\ blocked => dial.phase = "refused"
            /\ ~blocked => dial.phase \in {"passed", "connected", "neterror"}
            /\ dial.phase = "refused" => ~dial.attempted

\* "93.184.216.34:80" was dialled with the flag false and was refused.
C1_Witness ==
    /\ dial.phase = "refused"
    /\ dial.form = "plain" /\ dial.host = 7
    /\ ~dial.flagAtCheck

\* C2: whatever the mode and the certs, the client GetHTTPClient returned
\* dials through the gate, so none of its dials checked with the flag false
\* reaches the network for an address that is not local.
C2_AllClientsGated ==
    /\ (client.built /\ client.c # <<>>) => TransportOf(client.c[1]).Dial = "shim"
    /\ dial.phase # "idle" => dial.gated
    /\ (dial.attempted /\ ~dial.flagAtCheck) => ExpectedLocal(dial.form, dial.host)

\* The plain validating client (default transport) was refused a dial.
C2_Witness ==
    /\ client.built /\ client.verify = VerifySSLHostnames /\ client.certs = <<>>
    /\ client.c # <<>> /\ client.c[1].Transport = <<>>
    /\ dial.phase = "refused"

\* C3: the returned client skips verification exactly when the mode is
\* NoVerify, and has a custom root pool exactly when certs is not empty.
C3_TLSPolicy ==
    (client.built /\ client.c # <<>>) =>
        LET tls == TLSOf(TransportOf(client.c[1]))
        IN  /\ tls.InsecureSkipVerify <=> (client.verify = NoVerifySSLHostnames)
            /\ (tls.RootCAs # <<>>) <=> (Len(client.certs) > 0)

\* NoVerify with certs: skip-verify and the pool holding certA, both.
C3_Witness ==
    /\ client.built /\ client.c # <<>>
    /\ client.verify = NoVerifySSLHostnames
    /\ client.certs = << <<"certA">> >>
    /\ TLSOf(TransportOf(client.c[1])).InsecureSkipVerify
    /\ TLSOf(TransportOf(client.c[1])).RootCAs = << {"certA"} >>

\* C4: a header built by BasicAuthHeader from a username without a colon and
\* any password parses without error to that username and that password.
C4_RoundTrip ==
    (stage = "parsed" /\ enc.kind = "encoded" /\ ~HasColon(enc.u)) =>
        /\ parsed.err = "nil"
        /\ parsed.userid = enc.u
        /\ parsed.password = enc.p

\* Username "a", password ":a" (a colon in the password) came back.
C4_Witness ==
    /\ stage = "parsed" /\ enc.kind = "encoded"
    /\ enc.u = <<97>> /\ enc.p = <<58, 97>>
    /\ parsed.userid = <<97>> /\ parsed.password = <<58, 97>>

\* C5: ParseBasicAuthHeader fails, with empty username and password, on an
\* absent or empty header, on one that is not two fields, on a first field
\* other than "Basic", on a token that is not base64 and on a payload without
\* a colon; it succeeds on every other header.
C5_ParseErrors ==
    (stage = "parsed" /\ enc.kind \in {"raw", "absent"}) =>
        IF WellFormed(enc) THEN ParsedOK(enc) ELSE ParsedErr

\* "Basic YWI=" (payload "ab", no colon) was rejected.
C5_Witness ==
    /\ stage = "parsed" /\ enc.kind = "raw"
    /\ Canonical(enc) /\ enc.tok = 4
    /\ parsed.err = "invalid HTTP auth contents"

\* C6 as stated: every value that deviates from "Basic <base64>" with a single
\* space (other whitespace between, before or after, another spelling of the
\* scheme) is rejected.
C6_ByteExact ==
    (stage = "parsed" /\ enc.kind = "raw" /\ ~Canonical(enc)) => parsed.err # "nil"

\* C6 amended: a scheme spelled otherwise than "Basic", a scheme and token not
\* separated by white space and a further field are rejected; white space is
\* not byte-exact: a value with leading or trailing white space, or any run of
\* white space (Unicode white space included) between the scheme and the
\* token, parses as the canonical value does.
C6_SchemeExactWhitespaceLenient ==
    (stage = "parsed" /\ enc.kind = "raw") =>
        /\ Schemes[enc.scheme] # Basic => ParsedErr
        /\ (enc.sep \notin SepSplits \/ enc.extra) => ParsedErr
        /\ (Schemes[enc.scheme] = Basic /\ enc.sep \in SepSplits /\ ~enc.extra
            /\ TokenTable[enc.tok].b64 /\ TokenTable[enc.tok].colon)
           => ParsedOK(enc)

\* "\tBasic<U+00A0>YTpi\r\n" was accepted as a:b.
C6_Witness ==
    /\ stage = "parsed" /\ enc.kind = "raw"
    /\ enc.lead = 3 /\ enc.scheme = 1 /\ enc.sep = 6 /\ enc.tok = 1 /\ enc.trail = 3
    /\ ~enc.extra
    /\ parsed.err = "nil" /\ parsed.userid = <<97>> /\ parsed.password = <<98>>

\* C7: isLocalAddr is true exactly for the addresses that carry a host and a
\* port and whose host is "localhost" or a loopback IP.
C7_IsLocalAddr ==
    addrOut.done => (addrOut.local <=> ExpectedLocal(addrIn.form, addrIn.host))

\* "[::1]:80" was classified local.
C7_Witness ==
    /\ addrOut.done /\ addrOut.local
    /\ addrIn.form = "bracket" /\ addrIn.host = 4

\* C8: every dial is decided by the value OutgoingAccessAllowed has when that
\* dial is checked, whatever it was when the client was built or when an
\* earlier dial was checked.
C8_FlagReadPerDial ==
    [][ (dial' # dial /\ dial'.phase \in {"refused", "passed"}) =>
            (dial'.phase = "refused"
                <=> (~OutgoingAccessAllowed
                     /\ ~ExpectedLocal(dial'.form, dial'.host))) ]_vars

\* A client built while the flag was true was refused once it was false.
C8_Witness ==
    /\ client.built /\ client.builtWhile
    /\ ~OutgoingAccessAllowed
    /\ dial.phase = "refused" /\ ~dial.flagAtCheck

\* C9: GetHTTPClient always returns a client; malformed certificates are
\* left out of the pool, which holds exactly the valid ones.
C9_ConstructionNeverFails ==
    client.built =>
        /\ client.c # <<>>
        /\ Len(client.certs) > 0 =>
               TLSOf(TransportOf(client.c[1])).RootCAs = << ExpectedPool(client.certs) >>

\* Only malformed certs: a client with an empty pool.
C9_Witness ==
    /\ client.built /\ client.c # <<>>
    /\ client.certs = << <<"junk">> >>
    /\ TLSOf(TransportOf(client.c[1])).RootCAs = << {} >>

\* C10: readSeries runs at most once; no call returns before it has completed;
\* every call returns the series it read, with the annotated error if it
\* failed and nil otherwise.
C10_ComputeOnce ==
    /\ Len(reads) <= 1
    /\ \A g \in Callers : pc[g] = "return" => (seriesOnce.done /\ Len(reads) = 1)
    /\ returned # {} => (seriesOnce.done /\ Len(reads) = 1)
    /\ \A r \in returned :
           r = << reads[1].series,
                  IF reads[1].err # <<>>
                  THEN <<"cannot determine host series">> \o reads[1].err
                  ELSE <<>> >>

\* Every caller has returned from its last call, and the computation failed.
C10_Witness ==
    /\ \A g \in Callers : calls[g] = MaxCalls /\ pc[g] = "idle" /\ ret[g] # <<>>
    /\ Len(reads) = 1 /\ reads[1].err # <<>>
    /\ \A g \in Callers : ret[g][1][2] # <<>>

====
